---- MODULE Spec2Model ----
(***************************************************************************)
(* VinnoDrive (src/main.py): per-user content-addressed file storage.      *)
(*                                                                         *)
(* State: the user_files table, the shared_files table, the uploads        *)
(* directory (committed objects and staged temp files), the rate-limit map *)
(* and the wall clock.  One action per request handler; every handler is   *)
(* an `async def` whose only suspension point is `await file.read()`, so   *)
(* in the sequential specification each request is one atomic step.        *)
(*                                                                         *)
(* Scaling: sizes are in bytes of tiny blobs and USER_QUOTA_BYTES is       *)
(* scaled from 10 MiB to 2 bytes; time is in ticks of 500 ms, so the       *)
(* 0.5 s rate-limit window is 1 tick.                                      *)
(***************************************************************************)
EXTENDS Integers, Sequences, FiniteSets, TLC

VARIABLES
    user_files,        \* table user_files: set of UserFile rows
    shared_files,      \* table shared_files: set of SharedFile rows
    disk,              \* committed objects in UPLOAD_FOLDER: final path -> content
    temps,             \* staged files in UPLOAD_FOLDER: temp path -> content
    last_upload_time,  \* dict username -> time of the last batch that passed the rate limit
    now,               \* time.time(), in ticks
    issued_tokens,     \* how many share tokens uuid.uuid4() has handed out
    batches            \* upload requests that gave the event loop away, in order of arrival

vars == <<user_files, shared_files, disk, temps, last_upload_time, now, issued_tokens,
          batches>>

----------------------------------------------------------------------------
\* Bounds of the model

MaxId == 3          \* row ids stay in 1..MaxId
MaxBatch == 2       \* files per upload batch
NumContents == 2    \* distinct blobs a client may send
MaxTime == 1        \* the clock stops ticking here
MaxTemps == 1       \* staged files that may be left behind on disk
MaxTokens == 2      \* share tokens handed out
MaxDownloads == 2   \* public downloads counted per row
MaxInflight == 2    \* upload requests that overlap

\* Program constants (scaled, see the header)
USER_QUOTA_BYTES == 2
RATE_WINDOW == 1

Users == {"alice", "bob"}
Contents == 1..NumContents
Filenames == {"a.txt", "b.txt"}

----------------------------------------------------------------------------
\* Blobs and the content hasher

\* The bytes of blob c: 1 -> <<1>>, 2 -> <<0,0>>, 3 -> <<1,1,1>>, ...
Blob(c) == [i \in 1..c |-> c % 2]

\* os.path.getsize
getsize(c) == Len(Blob(c))

RECURSIVE sha_update(_, _)
sha_update(h, bytes) ==
    IF bytes = <<>> THEN h ELSE sha_update(2 * h + Head(bytes), Tail(bytes))

\* Slip: the digest is taken before any chunk was fed to it
calculate_hash_no_update(c) == sha_update(1, <<>>)

\* hashlib.sha256 over the file's bytes: an injective digest of the byte
\* string (a leading 1 followed by the bits), always >= 1
calculate_hash(c) == sha_update(1, Blob(c))

\* filehash of a folder marker row ("folder_marker": never a digest)
FOLDER_MARKER_HASH == 0

\* filepath of a folder marker row ("")
NO_PATH == <<>>

\* os.path.join(UPLOAD_FOLDER, f"{username}_{file_hash}")
final_path(username, file_hash) == <<username, file_hash>>

----------------------------------------------------------------------------
\* Small helpers

Max(S) == CHOOSE x \in S : \A y \in S : y <= x
Min(S) == CHOOSE x \in S : \A y \in S : x <= y

RECURSIVE SumSize(_)
SumSize(rows) ==
    IF rows = {} THEN 0
    ELSE LET r == CHOOSE x \in rows : TRUE IN r.size + SumSize(rows \ {r})

\* d with key k set to v (k may be new)
Put(d, k, v) == [x \in DOMAIN d \cup {k} |-> IF x = k THEN v ELSE d[x]]

\* d without key k
Drop(d, k) == [x \in DOMAIN d \ {k} |-> d[x]]

\* Query(...).first(): the row with the lowest rowid
First(rows) == CHOOSE r \in rows : \A q \in rows : r.id <= q.id

\* SQLite INTEGER PRIMARY KEY (no AUTOINCREMENT): max(rowid) + 1
NextId(rows) == IF rows = {} THEN 1 ELSE Max({r.id : r \in rows}) + 1

----------------------------------------------------------------------------
\* Quota ledger

get_actual_storage(rows, username) ==
    SumSize({f \in rows : f.username = username /\ f.is_reference = 0})

get_user_space_saved(rows, username) ==
    SumSize({f \in rows : f.username = username /\ f.is_reference = 1})

\* Slip: the username filter is missing
get_original_uploaded_all_users(rows, username) == SumSize(rows)

get_original_uploaded(rows, username) ==
    SumSize({f \in rows : f.username = username})

\* Slip: the saving is taken as a share of the bytes stored
savings_percent_of_actual(rows, username) ==
    IF get_actual_storage(rows, username) > 0
    THEN (get_user_space_saved(rows, username) * 100) \div get_actual_storage(rows, username)
    ELSE 0

\* dashboard: (saved_space / original_uploaded * 100) if original_uploaded > 0
\* else 0; the float is kept as its whole percents
savings_percent(rows, username) ==
    IF get_original_uploaded(rows, username) > 0
    THEN (get_user_space_saved(rows, username) * 100) \div get_original_uploaded(rows, username)
    ELSE 0

----------------------------------------------------------------------------
\* Folder paths: strings are sequences of one-character strings

RECURSIVE lstrip(_, _)
lstrip(s, ch) == IF s # <<>> /\ Head(s) = ch THEN lstrip(Tail(s), ch) ELSE s

RECURSIVE rstrip(_, _)
rstrip(s, ch) ==
    IF s # <<>> /\ s[Len(s)] = ch THEN rstrip(SubSeq(s, 1, Len(s) - 1), ch) ELSE s

\* str.strip(): leading and trailing whitespace; str.strip("/") likewise
strip(s, ch) == rstrip(lstrip(s, ch), ch)

\* folder.replace("\\", "/")
slashes(s) == [i \in 1..Len(s) |-> IF s[i] = "\\" THEN "/" ELSE s[i]]

\* while "//" in folder: folder = folder.replace("//", "/")
RECURSIVE collapse(_)
collapse(s) ==
    IF Len(s) < 2 THEN s
    ELSE IF s[1] = "/" /\ s[2] = "/" THEN collapse(Tail(s))
    ELSE <<s[1]>> \o collapse(Tail(s))

normalize_folder_path(folder) ==
    IF folder = <<>> THEN <<"/">>
    ELSE LET a == collapse(slashes(strip(folder, " ")))
             b == IF a = <<>> \/ Head(a) # "/" THEN <<"/">> \o a ELSE a
         IN  IF b[Len(b)] # "/" THEN b \o <<"/">> ELSE b

\* full_path.strip("/").split("/")[-1]
RECURSIVE last_segment(_)
last_segment(s) ==
    IF s = <<>> \/ s[Len(s)] = "/" THEN <<>>
    ELSE last_segment(SubSeq(s, 1, Len(s) - 1)) \o <<s[Len(s)]>>

\* f".folder_marker_{folder_display_name}"; a filename is a sequence whose
\* head is the marker prefix or the whole uploaded name
MARKER_PREFIX == ".folder_marker_"
marker_name(full_path) == <<MARKER_PREFIX>> \o last_segment(strip(full_path, "/"))

\* UserFile.filename.like(".folder_marker_%")
is_marker_name(filename) == filename # <<>> /\ Head(filename) = MARKER_PREFIX

\* the filename of an uploaded file, as stored in the row
stored_name(name) == IF name = "" THEN <<>> ELSE <<name>>

\* Folder strings a client may send: "", "\d", " d//", "/", all naming the
\* root or /d/; and with a second folder "e"
RawFolders == { <<>>, <<"\\", "d">>, <<" ", "d", "/", "/">>, <<"/">> }
MoreRawFolders == RawFolders \cup { <<"e">> }

----------------------------------------------------------------------------
\* Upload: stage -> hash -> quota check -> commit, with the failures the
\* handler's try/except covers

NO_FAULT == [phase |-> "none", at |-> 0]

\* An exception raised while file number `at` of the batch is handled:
\*   stage_open  open(temp_path, "wb") raises, nothing is created
\*   stage_write file.read()/f.write() raises, the file exists without its
\*               content (content 0)
\*   commit_fs   os.remove/os.rename raises, the filesystem is unchanged
\*   commit_db   db.commit() raises after the filesystem step was done
Faults ==
    {NO_FAULT} \cup
    [phase : {"stage_open", "stage_write", "commit_fs", "commit_db"}, at : 1..MaxBatch]

\* Batches a client may send: up to MaxBatch files, each one with a name of
\* `names` and a content, or an entry without a filename (its content is never read)
BatchesOf(names, contents) ==
    LET entries == [filename : names, content : contents] \cup
                   {[filename |-> "", content |-> 1]}
    IN  UNION {[1..n -> entries] : n \in 0..MaxBatch}

\* The faults that can strike a batch of this length
FaultsOf(files) == {f \in Faults : f.at <= Len(files)}

\* uuid.uuid4(): a value no staged file carries
uuid4(tmps) ==
    Min({n \in 1..(Cardinality(DOMAIN tmps) + 1) : \A p \in DOMAIN tmps : p[1] # n})

\* os.path.join(UPLOAD_FOLDER, f"temp_{uuid.uuid4()}_{file.filename}")
temp_path_of(tmps, filename) == <<uuid4(tmps), filename>>

\* Slip: the query never finds a row
existing_user_files_none(rows, username, file_hash) == {}

\* Slip: the is_reference flag is tested the wrong way round
existing_user_files_wrong_flag(rows, username, file_hash) ==
    {f \in rows : f.filehash = file_hash /\ f.username = username /\ f.is_reference = 1}

\* Slip: deduplication across all users (the earlier policy)
existing_user_files_any_owner(rows, username, file_hash) ==
    {f \in rows : f.filehash = file_hash /\ f.is_reference = 0}

\* THIS USER's non-reference rows with this hash
existing_user_files(rows, username, file_hash) ==
    {f \in rows : f.filehash = file_hash /\ f.username = username /\ f.is_reference = 0}

\* Slip: each staged file is put in front of temp_files instead of behind
RECURSIVE stage_prepending(_, _, _, _, _, _)
stage_prepending(files, i, rows, username, fault, st) ==
    IF i > Len(files) THEN st
    ELSE IF files[i].filename = ""
    THEN stage_prepending(files, i + 1, rows, username, fault, st)
    ELSE IF fault = [phase |-> "stage_open", at |-> i] THEN [st EXCEPT !.raised = TRUE]
    ELSE
      LET temp_path == temp_path_of(st.temps, files[i].filename)
          file_hash == calculate_hash(files[i].content)
          file_size == getsize(files[i].content)
          counted == IF existing_user_files(rows, username, file_hash) = {}
                     THEN st.new_original_size + file_size
                     ELSE st.new_original_size
          entry == [temp_path |-> temp_path, filename |-> files[i].filename,
                    file_hash |-> file_hash, file_size |-> file_size]
      IN  IF fault = [phase |-> "stage_write", at |-> i]
          THEN [st EXCEPT !.temps = Put(st.temps, temp_path, 0), !.raised = TRUE]
          ELSE stage_prepending(files, i + 1, rows, username, fault,
                                [temp_files |-> <<entry>> \o st.temp_files,
                                 new_original_size |-> counted,
                                 temps |-> Put(st.temps, temp_path, files[i].content),
                                 raised |-> FALSE])

\* the staging loop from file i on; st = [temp_files, new_original_size, temps, raised]
RECURSIVE stage(_, _, _, _, _, _)
stage(files, i, rows, username, fault, st) ==
    IF i > Len(files) THEN st
    ELSE IF files[i].filename = "" THEN stage(files, i + 1, rows, username, fault, st)
    ELSE IF fault = [phase |-> "stage_open", at |-> i] THEN [st EXCEPT !.raised = TRUE]
    ELSE
      LET temp_path == temp_path_of(st.temps, files[i].filename)
          written == Put(st.temps, temp_path, files[i].content)
          truncated == Put(st.temps, temp_path, 0)
          file_hash == calculate_hash(files[i].content)
          file_size == getsize(files[i].content)
          counted == IF existing_user_files(rows, username, file_hash) = {}
                     THEN st.new_original_size + file_size
                     ELSE st.new_original_size
          entry == [temp_path |-> temp_path, filename |-> files[i].filename,
                    file_hash |-> file_hash, file_size |-> file_size]
      IN  IF fault = [phase |-> "stage_write", at |-> i]
          THEN [st EXCEPT !.temps = truncated, !.raised = TRUE]
          ELSE stage(files, i + 1, rows, username, fault,
                     [temp_files |-> Append(st.temp_files, entry),
                      new_original_size |-> counted,
                      temps |-> written,
                      raised |-> FALSE])

\* Slip: the staged files are not removed
remove_temp_files_skipped(tmps, temp_files) == tmps

\* for temp_path, *_ in temp_files: if os.path.exists(temp_path): os.remove(temp_path)
remove_temp_files(tmps, temp_files) ==
    LET listed == {temp_files[k].temp_path : k \in 1..Len(temp_files)}
    IN  [p \in DOMAIN tmps \ listed |-> tmps[p]]

\* the UserFile row the commit loop adds
new_entry(rows, t, username, folder, filepath, is_ref) ==
    [id |-> NextId(rows), filename |-> stored_name(t.filename), filepath |-> filepath,
     filehash |-> t.file_hash, username |-> username, is_reference |-> is_ref,
     size |-> t.file_size, folder |-> folder, is_public |-> 0, share_token |-> 0,
     download_count |-> 0]

UPLOADED == "Uploaded successfully"
DUPLICATE == "Duplicate (you already uploaded this file)"

\* the commit loop from entry j on; st = [rows, disk, temps, results, raised]
RECURSIVE commit(_, _, _, _, _, _)
commit(temp_files, j, username, folder, fault, st) ==
    IF j > Len(temp_files) THEN st
    ELSE
      LET t == temp_files[j]
          existing == existing_user_files(st.rows, username, t.file_hash)
          is_ref == IF existing # {} THEN 1 ELSE 0
          filepath == IF existing # {} THEN First(existing).filepath
                      ELSE final_path(username, t.file_hash)
          \* os.remove(temp_path) for a duplicate, os.rename(temp_path, final_path) otherwise
          disk1 == IF existing # {} THEN st.disk
                   ELSE Put(st.disk, filepath, st.temps[t.temp_path])
          temps1 == Drop(st.temps, t.temp_path)
          message == IF existing # {} THEN DUPLICATE ELSE UPLOADED
      IN  IF fault = [phase |-> "commit_fs", at |-> j] THEN [st EXCEPT !.raised = TRUE]
          ELSE IF fault = [phase |-> "commit_db", at |-> j]
          THEN [st EXCEPT !.disk = disk1, !.temps = temps1, !.raised = TRUE]
          ELSE commit(temp_files, j + 1, username, folder, fault,
                      [rows |-> st.rows \cup
                                {new_entry(st.rows, t, username, folder, filepath, is_ref)},
                       disk |-> disk1,
                       temps |-> temps1,
                       results |-> Append(st.results,
                                          [filename |-> t.filename, message |-> message]),
                       raised |-> FALSE])

\* Slip: the bytes already stored are left out of the check
over_quota_batch_only(current_used, new_original_size) ==
    new_original_size > USER_QUOTA_BYTES

\* current_used + new_original_size > USER_QUOTA_BYTES
over_quota(current_used, new_original_size) ==
    current_used + new_original_size > USER_QUOTA_BYTES

\* Slip: the window is never enforced
rate_limited_never(lut, t, username) == FALSE

\* username in last_upload_time and now - last_upload_time[username] < 0.5
rate_limited(lut, t, username) ==
    username \in DOMAIN lut /\ t - lut[username] < RATE_WINDOW

\* not files or all(not f.filename for f in files)
no_files(files) == files = <<>> \/ \A i \in 1..Len(files) : files[i].filename = ""

\* what a batch answers and leaves behind
outcome(rows, dsk, tmps, lut, error, results, temp_files) ==
    [user_files |-> rows, disk |-> dsk, temps |-> tmps, last_upload_time |-> lut,
     error |-> error, results |-> results, temp_files |-> temp_files]

\* The whole handler as a function of the state and the request
upload(rows, dsk, tmps, lut, t, username, raw_folder, files, fault) ==
    IF no_files(files)
    THEN outcome(rows, dsk, tmps, lut, "NO_FILES_SELECTED", <<>>, <<>>)
    ELSE IF rate_limited(lut, t, username)
    THEN outcome(rows, dsk, tmps, lut, "RATE_LIMITED", <<>>, <<>>)
    ELSE
      LET lut1 == Put(lut, username, t)
          folder == normalize_folder_path(raw_folder)
          current_used == get_actual_storage(rows, username)
          s == stage(files, 1, rows, username, fault,
                     [temp_files |-> <<>>, new_original_size |-> 0,
                      temps |-> tmps, raised |-> FALSE])
      IN  IF s.raised
          THEN outcome(rows, dsk, remove_temp_files(s.temps, s.temp_files), lut1,
                       "INTERNAL_ERROR", <<>>, s.temp_files)
          ELSE IF over_quota(current_used, s.new_original_size)
          THEN outcome(rows, dsk, remove_temp_files(s.temps, s.temp_files), lut1,
                       "QUOTA_EXCEEDED", <<>>, s.temp_files)
          ELSE
            LET c == commit(s.temp_files, 1, username, folder, fault,
                            [rows |-> rows, disk |-> dsk, temps |-> s.temps,
                             results |-> <<>>, raised |-> FALSE])
            IN  IF c.raised
                THEN outcome(c.rows, c.disk, remove_temp_files(c.temps, s.temp_files),
                             lut1, "INTERNAL_ERROR", <<>>, s.temp_files)
                ELSE outcome(c.rows, c.disk, c.temps, lut1, "", c.results, s.temp_files)

Upload(username, raw_folder, files, fault) ==
    \E o \in {upload(user_files, disk, temps, last_upload_time, now,
                     username, raw_folder, files, fault)} :
        /\ \A f \in o.user_files : f.id <= MaxId
        /\ Cardinality(DOMAIN o.temps) <= MaxTemps
        /\ user_files' = o.user_files
        /\ disk' = o.disk
        /\ temps' = o.temps
        /\ last_upload_time' = o.last_upload_time
        /\ UNCHANGED <<shared_files, now, issued_tokens, batches>>

----------------------------------------------------------------------------
\* Delete (the reference reaper)

\* Slip: only the non-reference rows are counted
user_ref_count_primaries_only(rows, username, file_hash) ==
    Cardinality({f \in rows : /\ f.filehash = file_hash /\ f.username = username
                               /\ f.is_reference = 0})

\* Count how many rows THIS USER has with this file hash
user_ref_count(rows, username, file_hash) ==
    Cardinality({f \in rows : f.filehash = file_hash /\ f.username = username})

\* Slip: the reference count is not consulted
removes_object_ignoring_count(count, file, dsk) ==
    file.filepath # NO_PATH /\ file.filepath \in DOMAIN dsk

\* user_ref_count == 1 and file.filepath and os.path.exists(file.filepath)
removes_object(count, file, dsk) ==
    count = 1 /\ file.filepath # NO_PATH /\ file.filepath \in DOMAIN dsk

\* the handler's writes in program order: db.delete + db.commit, then os.remove
delete_effects(remove) ==
    IF remove THEN <<"db.delete", "os.remove">> ELSE <<"db.delete">>

\* Slip: the row is looked up by id alone
delete_any_owner(rows, dsk, username, file_id) ==
    LET found == {f \in rows : f.id = file_id}
    IN  IF found = {}
        THEN [user_files |-> rows, disk |-> dsk, error |-> "NOT_FOUND", effects |-> <<>>]
        ELSE
          LET file == First(found)
              count == user_ref_count(rows, file.username, file.filehash)
              remove == removes_object(count, file, dsk)
          IN  [user_files |-> rows \ {file},
               disk |-> IF remove THEN Drop(dsk, file.filepath) ELSE dsk,
               error |-> "",
               effects |-> delete_effects(remove)]

\* The whole handler as a function of the state and the request
delete(rows, dsk, username, file_id) ==
    LET found == {f \in rows : f.id = file_id /\ f.username = username}
    IN  IF found = {}
        THEN [user_files |-> rows, disk |-> dsk, error |-> "NOT_FOUND", effects |-> <<>>]
        ELSE
          LET file == First(found)
              count == user_ref_count(rows, username, file.filehash)
              remove == removes_object(count, file, dsk)
          IN  [user_files |-> rows \ {file},
               disk |-> IF remove THEN Drop(dsk, file.filepath) ELSE dsk,
               error |-> "",
               effects |-> delete_effects(remove)]

Delete(username, file_id) ==
    \E o \in {delete(user_files, disk, username, file_id)} :
        /\ user_files' = o.user_files
        /\ disk' = o.disk
        /\ UNCHANGED <<shared_files, temps, last_upload_time, now, issued_tokens, batches>>

----------------------------------------------------------------------------
\* Create folder

\* the folder marker row
folder_marker(rows, username, full_path) ==
    [id |-> NextId(rows), filename |-> marker_name(full_path), filepath |-> NO_PATH,
     filehash |-> FOLDER_MARKER_HASH, username |-> username, is_reference |-> 0,
     size |-> 0, folder |-> full_path, is_public |-> 0, share_token |-> 0,
     download_count |-> 0]

\* The whole handler: the table it leaves
create_folder(rows, username, raw_name) ==
    LET folder_name == strip(raw_name, " ")
        full_path == normalize_folder_path(folder_name)
        existing == {f \in rows : /\ f.username = username
                                  /\ f.folder = full_path
                                  /\ is_marker_name(f.filename)}
    IN  IF folder_name = <<>> \/ full_path = <<"/">> \/ existing # {}
        THEN rows
        ELSE rows \cup {folder_marker(rows, username, full_path)}

CreateFolder(username, raw_name) ==
    \E rows \in {create_folder(user_files, username, raw_name)} :
        /\ \A f \in rows : f.id <= MaxId
        /\ user_files' = rows
        /\ UNCHANGED <<shared_files, disk, temps, last_upload_time, now, issued_tokens, batches>>

----------------------------------------------------------------------------
\* Download and sharing

NO_TOKEN == 0

\* Slip: the shared_files lookup is skipped, every logged-in user may read
download_any_user(rows, shares, dsk, username, file_id) ==
    LET found == {f \in rows : f.id = file_id}
    IN  IF found = {} THEN [status |-> "NOT_FOUND", body |-> 0]
        ELSE IF First(found).filepath \notin DOMAIN dsk
        THEN [status |-> "NOT_FOUND", body |-> 0]
        ELSE [status |-> "OK", body |-> dsk[First(found).filepath]]

\* GET /download/{file_id}: 404 without the row or the object, 403 for a
\* stranger, else the object's bytes
download(rows, shares, dsk, username, file_id) ==
    LET found == {f \in rows : f.id = file_id}
    IN  IF found = {} THEN [status |-> "NOT_FOUND", body |-> 0]
        ELSE LET file == First(found)
                 shared == {g \in shares : g.file_id = file_id /\ g.shared_with = username}
             IN  IF file.username # username /\ shared = {}
                 THEN [status |-> "ACCESS_DENIED", body |-> 0]
                 ELSE IF file.filepath \notin DOMAIN dsk
                 THEN [status |-> "NOT_FOUND", body |-> 0]
                 ELSE [status |-> "OK", body |-> dsk[file.filepath]]

\* the handler reads and answers, it writes nothing
Download(username, file_id) ==
    /\ download(user_files, shared_files, disk, username, file_id).status \in
           {"OK", "NOT_FOUND", "ACCESS_DENIED"}
    /\ UNCHANGED vars

\* Slip: the download is served without being counted
public_download_uncounted(rows, dsk, token) ==
    LET found == {f \in rows : f.share_token = token /\ f.is_public = 1}
    IN  IF found = {} \/ First(found).filepath \notin DOMAIN dsk
        THEN [user_files |-> rows, status |-> "NOT_FOUND", body |-> 0]
        ELSE [user_files |-> rows, status |-> "OK", body |-> dsk[First(found).filepath]]

\* GET /public/{token}: 404 without a public row carrying the token or
\* without the object, else download_count += 1 and the object's bytes
public_download(rows, dsk, token) ==
    LET found == {f \in rows : f.share_token = token /\ f.is_public = 1}
    IN  IF found = {} THEN [user_files |-> rows, status |-> "NOT_FOUND", body |-> 0]
        ELSE LET file == First(found)
                 counted == [file EXCEPT !.download_count = file.download_count + 1]
             IN  IF file.filepath \notin DOMAIN dsk
                 THEN [user_files |-> rows, status |-> "NOT_FOUND", body |-> 0]
                 ELSE [user_files |-> (rows \ {file}) \cup {counted},
                       status |-> "OK", body |-> dsk[file.filepath]]

PublicDownload(token) ==
    \E o \in {public_download(user_files, disk, token)} :
        /\ \A f \in o.user_files : f.download_count <= MaxDownloads
        /\ user_files' = o.user_files
        /\ UNCHANGED <<shared_files, disk, temps, last_upload_time, now, issued_tokens, batches>>

\* Slip: the same token is handed out every time
share_uuid4_reused(issued) == 1

\* str(uuid.uuid4()): a token that was never handed out before
share_uuid4(issued) == issued + 1

\* POST /toggle_share: flip is_public, a fresh token when public, none otherwise
toggle_share(rows, issued, username, file_id) ==
    LET found == {f \in rows : f.id = file_id /\ f.username = username}
    IN  IF found = {} THEN [user_files |-> rows, issued |-> issued, error |-> "NOT_FOUND"]
        ELSE LET file == First(found)
                 is_public == 1 - file.is_public
                 toggled == [file EXCEPT !.is_public = is_public,
                                         !.share_token = IF is_public = 1
                                                         THEN share_uuid4(issued)
                                                         ELSE NO_TOKEN]
             IN  [user_files |-> (rows \ {file}) \cup {toggled},
                  issued |-> IF is_public = 1 THEN issued + 1 ELSE issued,
                  error |-> ""]

ToggleShare(username, file_id) ==
    \E o \in {toggle_share(user_files, issued_tokens, username, file_id)} :
        /\ o.issued <= MaxTokens
        /\ user_files' = o.user_files
        /\ issued_tokens' = o.issued
        /\ UNCHANGED <<shared_files, disk, temps, last_upload_time, now, batches>>

\* the users table; "mallory" never signed up
Accounts == Users
Targets == Users \cup {"mallory"}

\* POST /share_with_user: the shared_files table it leaves
share_with_user(rows, shares, username, file_id, target_username) ==
    LET found == {f \in rows : f.id = file_id /\ f.username = username}
        already == {g \in shares : g.file_id = file_id /\ g.shared_with = target_username}
    IN  IF \/ found = {}
           \/ target_username \notin Accounts
           \/ target_username = username
           \/ already # {}
        THEN shares
        ELSE shares \cup {[file_id |-> file_id, shared_with |-> target_username,
                           shared_by |-> username]}

ShareWithUser(username, file_id, target_username) ==
    /\ shared_files' = share_with_user(user_files, shared_files, username, file_id,
                                       target_username)
    /\ UNCHANGED <<user_files, disk, temps, last_upload_time, now, issued_tokens, batches>>

----------------------------------------------------------------------------
\* The clock

Tick ==
    /\ now < MaxTime
    /\ now' = now + 1
    /\ UNCHANGED <<user_files, shared_files, disk, temps, last_upload_time, issued_tokens, batches>>

----------------------------------------------------------------------------
\* The sequential specification: requests run one at a time

Init ==
    /\ user_files = {}
    /\ shared_files = {}
    /\ disk = <<>>
    /\ temps = <<>>
    /\ last_upload_time = <<>>
    /\ now = 0
    /\ issued_tokens = 0
    /\ batches = <<>>

\* what the clients of this specification send
UploadNames == {"a.txt"}
UploadFolder == <<"d">>

Next ==
    \/ \E u \in Users, files \in BatchesOf(UploadNames, Contents) :
           \E fault \in FaultsOf(files) : Upload(u, UploadFolder, files, fault)
    \/ \E u \in Users, id \in 1..MaxId : Delete(u, id)
    \/ \E u \in Users, d \in RawFolders : CreateFolder(u, d)
    \/ Tick

Spec == Init /\ [][Next]_vars

\* The same requests when no I/O call fails
NextReliable ==
    \/ \E u \in Users, files \in BatchesOf(UploadNames, Contents) :
           Upload(u, UploadFolder, files, NO_FAULT)
    \/ \E u \in Users, id \in 1..MaxId : Delete(u, id)
    \/ \E u \in Users, d \in RawFolders : CreateFolder(u, d)
    \/ Tick

SpecReliable == Init /\ [][NextReliable]_vars

\* The same requests without deletion, under any filenames and folders
NextDedup ==
    \/ \E u \in Users, d \in {<<"d">>, <<"e">>}, files \in BatchesOf(Filenames, Contents) :
           Upload(u, d, files, NO_FAULT)
    \/ \E u \in Users, d \in RawFolders : CreateFolder(u, d)
    \/ Tick

SpecDedup == Init /\ [][NextDedup]_vars

\* Uploads, folders and deletes together with the sharing requests: one
\* content, two folders, alice as the user who grants access, and the clock
\* standing still (one accepted batch per user)
NextShare ==
    \/ \E u \in Users, files \in BatchesOf(UploadNames, {1}) :
           Upload(u, UploadFolder, files, NO_FAULT)
    \/ \E u \in Users, id \in 1..MaxId : Delete(u, id)
    \/ \E u \in Users, d \in {<<"\\", "d">>, <<"e">>} : CreateFolder(u, d)
    \/ \E u \in Users, id \in 1..MaxId : ToggleShare(u, id)
    \/ \E id \in 1..MaxId, t \in Targets : ShareWithUser("alice", id, t)

SpecShare == Init /\ [][NextShare]_vars

\* The sharing specification together with the two download handlers
NextPublic ==
    \/ NextShare
    \/ \E u \in Users, id \in 1..MaxId : Download(u, id)
    \/ \E token \in 1..(MaxTokens + 1) : PublicDownload(token)

SpecPublic == Init /\ [][NextPublic]_vars

\* Every request that writes, one at a time: uploads of both contents, with
\* the clock, next to deletes, folders and the sharing requests
NextSequential ==
    \/ NextReliable
    \/ \E u \in Users, id \in 1..MaxId : ToggleShare(u, id)
    \/ \E id \in 1..MaxId, t \in Targets : ShareWithUser("alice", id, t)

SpecSequential == Init /\ [][NextSequential]_vars

----------------------------------------------------------------------------
\* Overlapping uploads.  The handler gives the event loop away at
\* `content = await file.read()` and nowhere else, so a request runs in
\* these atomic pieces: from its start to the read of its first file (the
\* temp file is open and empty), from one read to the next, and from the
\* last read through the quota check and the commit loop to the answer.

\* the first entry from i on that carries a filename, 0 if there is none
next_named(files, i) ==
    LET named == {j \in i..Len(files) : files[j].filename # ""}
    IN  IF named = {} THEN 0 ELSE Min(named)

\* open(temp_path, "wb"): the file exists and is empty
open_temp(tmps, filename) == Put(tmps, temp_path_of(tmps, filename), 0)

\* from the start of the handler to the first `await file.read()`
begin_upload(rows, tmps, lut, t, username, raw_folder, files) ==
    IF no_files(files)
    THEN [error |-> "NO_FILES_SELECTED", temps |-> tmps, last_upload_time |-> lut,
          batch |-> <<>>]
    ELSE IF rate_limited(lut, t, username)
    THEN [error |-> "RATE_LIMITED", temps |-> tmps, last_upload_time |-> lut,
          batch |-> <<>>]
    ELSE
      LET i == next_named(files, 1)
      IN  [error |-> "",
           temps |-> open_temp(tmps, files[i].filename),
           last_upload_time |-> Put(lut, username, t),
           batch |-> [username |-> username,
                      folder |-> normalize_folder_path(raw_folder),
                      files |-> files,
                      current_used |-> get_actual_storage(rows, username),
                      new_original_size |-> 0,
                      temp_files |-> <<>>,
                      i |-> i,
                      temp_path |-> temp_path_of(tmps, files[i].filename),
                      pc |-> "reading",
                      error |-> "",
                      results |-> <<>>]]

\* Slip: the usage is read again at the quota check
gate_usage_reread(b, rows) == get_actual_storage(rows, b.username)

\* current_used at the quota check: the value read before staging began
gate_usage(b, rows) == b.current_used

\* from the return of `await file.read()` to the next one, or to the answer
resume_upload(b, rows, dsk, tmps) ==
    LET file == b.files[b.i]
        written == Put(tmps, b.temp_path, file.content)
        file_hash == calculate_hash(file.content)
        file_size == getsize(file.content)
        counted == IF existing_user_files(rows, b.username, file_hash) = {}
                   THEN b.new_original_size + file_size
                   ELSE b.new_original_size
        temp_files == Append(b.temp_files,
                             [temp_path |-> b.temp_path, filename |-> file.filename,
                              file_hash |-> file_hash, file_size |-> file_size])
        staged == [b EXCEPT !.new_original_size = counted, !.temp_files = temp_files]
        j == next_named(b.files, b.i + 1)
    IN  IF j # 0
        THEN [user_files |-> rows, disk |-> dsk,
              temps |-> open_temp(written, b.files[j].filename),
              batch |-> [staged EXCEPT !.i = j,
                                       !.temp_path = temp_path_of(written,
                                                                  b.files[j].filename)]]
        ELSE IF over_quota(gate_usage(b, rows), counted)
        THEN [user_files |-> rows, disk |-> dsk,
              temps |-> remove_temp_files(written, temp_files),
              batch |-> [staged EXCEPT !.pc = "done", !.error = "QUOTA_EXCEEDED"]]
        ELSE
          LET c == commit(temp_files, 1, b.username, b.folder, NO_FAULT,
                          [rows |-> rows, disk |-> dsk, temps |-> written,
                           results |-> <<>>, raised |-> FALSE])
          IN  [user_files |-> c.rows, disk |-> c.disk, temps |-> c.temps,
               batch |-> [staged EXCEPT !.pc = "done", !.results = c.results]]

BeginUpload(username, raw_folder, files) ==
    /\ Len(batches) < MaxInflight
    /\ \E o \in {begin_upload(user_files, temps, last_upload_time, now, username,
                               raw_folder, files)} :
           /\ temps' = o.temps
           /\ last_upload_time' = o.last_upload_time
           /\ batches' = IF o.error = "" THEN Append(batches, o.batch) ELSE batches
           /\ UNCHANGED <<user_files, shared_files, disk, now, issued_tokens>>

ResumeUpload(k) ==
    /\ k \in DOMAIN batches
    /\ batches[k].pc = "reading"
    /\ \E o \in {resume_upload(batches[k], user_files, disk, temps)} :
           /\ user_files' = o.user_files
           /\ disk' = o.disk
           /\ temps' = o.temps
           /\ batches' = [batches EXCEPT ![k] = o.batch]
           /\ UNCHANGED <<shared_files, last_upload_time, now, issued_tokens>>

\* MaxInflight upload requests of any users, overlapping in every way the
\* event loop allows
NextOverlap ==
    \/ \E u \in Users, files \in BatchesOf(UploadNames, Contents) :
           BeginUpload(u, UploadFolder, files)
    \/ \E k \in 1..MaxInflight : ResumeUpload(k)
    \/ Tick

SpecOverlap == Init /\ [][NextOverlap]_vars

----------------------------------------------------------------------------
\* Vocabulary of the properties

\* the rows upload created (the others are folder markers)
UploadRows == {f \in user_files : f.filehash # FOLDER_MARKER_HASH}

\* one user's rows with one fingerprint
RowsOf(rows, username, file_hash) ==
    {f \in rows : f.username = username /\ f.filehash = file_hash}

\* one user's objects: the final paths in the user's namespace
ObjectsOf(dsk, username) == {p \in DOMAIN dsk : p[1] = username}

RECURSIVE StoredBytes(_, _)
StoredBytes(dsk, paths) ==
    IF paths = {} THEN 0
    ELSE LET p == CHOOSE x \in paths : TRUE
         IN  getsize(dsk[p]) + StoredBytes(dsk, paths \ {p})

RECURSIVE BytesOf(_)
BytesOf(contents) ==
    IF contents = {} THEN 0
    ELSE LET c == CHOOSE x \in contents : TRUE IN getsize(c) + BytesOf(contents \ {c})

\* the usage figures of one user
Usage(rows, username) ==
    <<get_actual_storage(rows, username), get_user_space_saved(rows, username),
      get_original_uploaded(rows, username)>>

\* the requests the properties range over
Requests == BatchesOf(UploadNames, Contents)

\* the files of a batch that carry a filename, in order
Named(files) == SelectSeq(files, LAMBDA f : f.filename # "")

\* what the handler answers to this batch in the current state
Answer(username, files, fault) ==
    upload(user_files, disk, temps, last_upload_time, now, username, UploadFolder,
           files, fault)

\* the batch gets past the empty-batch and the rate-limit checks
PassesChecks(username, files) ==
    ~no_files(files) /\ ~rate_limited(last_upload_time, now, username)

----------------------------------------------------------------------------
\* C2: a batch that passes the empty-batch and rate-limit checks and meets no
\* I/O failure is accepted iff A + S <= Q, where A is the user's actual
\* storage and S the bytes of the batch's files that would be committed as
\* new primaries (each new content once); a rejected batch answers
\* QUOTA_EXCEEDED, leaves actual storage as it was and adds no row.

\* S: the bytes of the contents of the batch the user holds no primary for
NewPrimaryBytes(rows, username, files) ==
    BytesOf({c \in {Named(files)[i].content : i \in 1..Len(Named(files))} :
                existing_user_files(rows, username, calculate_hash(c)) = {}})

C2_QuotaGate ==
    \A u \in Users, files \in Requests :
        PassesChecks(u, files) =>
            LET o == Answer(u, files, NO_FAULT)
                A == get_actual_storage(user_files, u)
                S == NewPrimaryBytes(user_files, u, files)
            IN  /\ (o.error = "") <=> (A + S <= USER_QUOTA_BYTES)
                /\ o.error # "" =>
                       /\ o.error = "QUOTA_EXCEEDED"
                       /\ get_actual_storage(o.user_files, u) = A
                       /\ o.user_files = user_files

----------------------------------------------------------------------------
\* C3: delete of a row its user owns never removes the physical object while
\* another row of the same owner has the same fingerprint (whether the row is
\* the primary or a duplicate); when it is the owner's only row with that
\* fingerprint the object is gone afterwards; and the row is deleted before
\* the object is removed.

C3_Reclamation ==
    \A u \in Users, file \in user_files :
        file.username = u =>
            LET o == delete(user_files, disk, u, file.id)
                others == RowsOf(user_files, u, file.filehash) \ {file}
            IN  /\ o.error = ""
                /\ file \notin o.user_files
                /\ others # {} => o.disk = disk
                /\ others = {} => file.filepath \notin DOMAIN o.disk
                /\ o.effects[1] = "db.delete"
                /\ \A k \in 1..Len(o.effects) : o.effects[k] = "os.remove" => k > 1

\* a duplicate whose primary was deleted: the object was kept for it
C3_Witness ==
    \E f \in UploadRows :
        /\ f.is_reference = 1
        /\ existing_user_files(user_files, f.username, f.filehash) = {}
        /\ f.filepath \in DOMAIN disk

----------------------------------------------------------------------------
\* C4: invariant I3: a physical object exists in the object store iff at least
\* one non-duplicate row has it as its filepath.

C4_I3 ==
    \A u \in Users, c \in Contents :
        LET p == final_path(u, calculate_hash(c))
        IN  p \in DOMAIN disk <=>
                \E f \in user_files : f.is_reference = 0 /\ f.filepath = p

----------------------------------------------------------------------------
\* C5: accounting identity: for every user, original uploaded = actual
\* storage + space saved, exactly.

C5_AccountingIdentity ==
    \A u \in Users :
        get_original_uploaded(user_files, u) =
            get_actual_storage(user_files, u) + get_user_space_saved(user_files, u)

\* both users hold files, one of them a primary and a duplicate
C5_Witness ==
    /\ \A u \in Users : get_original_uploaded(user_files, u) > 0
    /\ \E u \in Users : /\ get_actual_storage(user_files, u) > 0
                        /\ get_user_space_saved(user_files, u) > 0

----------------------------------------------------------------------------
\* C6: actual storage is the number of bytes physically stored for the user:
\* the sizes of the user's non-duplicate rows sum to the sizes of the objects
\* in the user's namespace.

C6_ActualIsPhysical ==
    \A u \in Users :
        get_actual_storage(user_files, u) = StoredBytes(disk, ObjectsOf(disk, u))

----------------------------------------------------------------------------
\* C7: after a user has uploaded the same content N >= 1 times with no
\* deletion in between, under any filenames and folders, the user has
\* exactly one non-duplicate row and N-1 duplicate rows for the fingerprint,
\* all with the same filepath, and exactly one object of the user holds the
\* content.  (N is the number of rows: every file of an accepted batch adds
\* exactly one row with its fingerprint.)

C7_IdempotentDedup ==
    /\ \A u \in Users, c \in Contents :
           LET rs == RowsOf(user_files, u, calculate_hash(c))
               primaries == {f \in rs : f.is_reference = 0}
           IN  rs # {} =>
                   /\ Cardinality(primaries) = 1
                   /\ \A f \in rs \ primaries : f.is_reference = 1
                   /\ \A f \in rs :
                          /\ \A g \in rs : f.filepath = g.filepath
                          /\ {p \in ObjectsOf(disk, u) : disk[p] = c} = {f.filepath}
    /\ \A u \in Users, d \in {<<"d">>, <<"e">>}, files \in BatchesOf(Filenames, Contents) :
           LET o == upload(user_files, disk, temps, last_upload_time, now, u, d, files,
                           NO_FAULT)
               named == Named(files)
           IN  o.error = "" =>
                   \A c \in Contents :
                       Cardinality(RowsOf(o.user_files, u, calculate_hash(c))) =
                           Cardinality(RowsOf(user_files, u, calculate_hash(c))) +
                           Cardinality({i \in 1..Len(named) : named[i].content = c})

\* one content uploaded three times under two names and into two folders
C7_Witness ==
    \E u \in Users, c \in Contents :
        LET rs == RowsOf(user_files, u, calculate_hash(c))
        IN  /\ Cardinality(rs) = 3
            /\ Cardinality({f.filename : f \in rs}) = 2
            /\ Cardinality({f.folder : f \in rs}) = 2

----------------------------------------------------------------------------
\* C8: when user B uploads content for which B has no non-duplicate row, the
\* outcome is UPLOADED with a new non-duplicate row and an object in B's own
\* namespace, whatever the other users store; and no upload or delete by
\* another user A changes B's rows, B's usage figures or B's objects.

\* B's rows, usage figures and objects
Holdings(rows, dsk, B) ==
    <<{f \in rows : f.username = B}, Usage(rows, B),
      [p \in ObjectsOf(dsk, B) |-> dsk[p]]>>

C8_PerUserScope ==
    /\ \A B \in Users, files \in Requests :
           LET o == Answer(B, files, NO_FAULT)
               named == Named(files)
           IN  o.error = "" =>
                   \A k \in 1..Len(named) :
                       LET c == named[k].content
                           h == calculate_hash(c)
                       IN  (/\ existing_user_files(user_files, B, h) = {}
                            /\ \A j \in 1..(k - 1) : named[j].content # c) =>
                               /\ o.results[k].message = UPLOADED
                               /\ \E f \in o.user_files \ user_files :
                                      /\ f.username = B
                                      /\ f.filehash = h
                                      /\ f.is_reference = 0
                                      /\ f.filepath \in ObjectsOf(o.disk, B)
                                      /\ o.disk[f.filepath] = c
    /\ \A A \in Users : \A B \in Users \ {A} :
           /\ \A files \in Requests, fault \in Faults :
                  LET o == Answer(A, files, fault)
                  IN  Holdings(o.user_files, o.disk, B) = Holdings(user_files, disk, B)
           /\ \A id \in 1..MaxId :
                  LET o == delete(user_files, disk, A, id)
                  IN  Holdings(o.user_files, o.disk, B) = Holdings(user_files, disk, B)

\* both users hold a primary for the same bytes, each with an object of their own
C8_Witness ==
    \E f \in UploadRows, g \in UploadRows :
        /\ f.username # g.username
        /\ f.filehash = g.filehash
        /\ f.is_reference = 0 /\ g.is_reference = 0
        /\ f.filepath # g.filepath
        /\ f.filepath \in DOMAIN disk /\ g.filepath \in DOMAIN disk

----------------------------------------------------------------------------
\* C9: every row created by upload is readable: its filepath names an
\* existing object whose content has the row's fingerprint (and size), and
\* download by the owner returns that content.

C9_Readable ==
    \A f \in UploadRows :
        /\ f.filepath \in DOMAIN disk
        /\ calculate_hash(disk[f.filepath]) = f.filehash
        /\ getsize(disk[f.filepath]) = f.size
        /\ download(user_files, shared_files, disk, f.username, f.id) =
               [status |-> "OK", body |-> disk[f.filepath]]

\* rows of both users survive deletes: a row with a lower id is gone and a
\* duplicate outlived its primary
C9_Witness ==
    /\ \E f \in UploadRows, g \in UploadRows : f.username # g.username
    /\ \E f \in UploadRows :
           /\ f.is_reference = 1
           /\ \A g \in user_files : g.id >= f.id
           /\ f.id > 1

----------------------------------------------------------------------------
\* C10: a batch rejected with NO_FILES_SELECTED, RATE_LIMITED or
\* QUOTA_EXCEEDED returns no per-file result and leaves the rows, the object
\* store, every user's usage figures and the staged files as they were.

Rejections == {"NO_FILES_SELECTED", "RATE_LIMITED", "QUOTA_EXCEEDED"}

C10_RejectedNoEffect ==
    \A u \in Users, files \in Requests, fault \in Faults :
        LET o == Answer(u, files, fault)
        IN  o.error \in Rejections =>
                /\ o.results = <<>>
                /\ o.user_files = user_files
                /\ o.disk = disk
                /\ o.temps = temps
                /\ \A v \in Users : Usage(o.user_files, v) = Usage(user_files, v)

\* with files stored, one user's batch is rate limited and another user's
\* batch exceeds the quota
C10_Witness ==
    /\ user_files # {} /\ disk # <<>>
    /\ \E u \in Users, files \in Requests : Answer(u, files, NO_FAULT).error = "RATE_LIMITED"
    /\ \E u \in Users, files \in Requests :
           /\ Answer(u, files, NO_FAULT).error = "QUOTA_EXCEEDED"
           /\ get_actual_storage(user_files, u) > 0

----------------------------------------------------------------------------
\* C1: invariant I1: each (owner, fingerprint) pair has at most one
\* non-duplicate row.

AtMostOnePrimary(username, file_hash) ==
    Cardinality({f \in RowsOf(user_files, username, file_hash) : f.is_reference = 0}) <= 1

\* I1 for every fingerprint a row carries
C1_I1_EveryFingerprint ==
    \A f \in user_files : AtMostOnePrimary(f.username, f.filehash)

\* I1 for the fingerprints of contents (folder markers set aside)
C1_I1_ContentFingerprints ==
    \A f \in UploadRows : AtMostOnePrimary(f.username, f.filehash)

\* a shared primary with a duplicate beside it, next to a folder marker
C1_Witness ==
    \E f \in UploadRows, g \in UploadRows, m \in user_files \ UploadRows :
        /\ f.username = g.username /\ f.filehash = g.filehash
        /\ f.is_reference = 0 /\ g.is_reference = 1
        /\ f.is_public = 1
        /\ m.username = f.username

----------------------------------------------------------------------------
\* C11: no partial commit on failure: a batch that fails during staging or
\* commit answers a single INTERNAL_ERROR without per-file results, and no row
\* and no object created by that batch exists afterwards (the files committed
\* before the failure are rolled back too).

C11_NoPartialCommit ==
    \A u \in Users, files \in Requests :
        \A fault \in FaultsOf(files) :
            LET o == Answer(u, files, fault)
            IN  o.error = "INTERNAL_ERROR" =>
                    /\ o.results = <<>>
                    /\ o.user_files = user_files
                    /\ o.disk = disk

----------------------------------------------------------------------------
\* C18: staged files never outlive their batch: whatever the outcome of a
\* batch (accepted, rejected, or failed at any point of staging, hashing or
\* commit), no temp file written by it remains on disk.

C18_NoStagedFileLeft ==
    \A u \in Users, files \in Requests :
        \A fault \in FaultsOf(files) :
            DOMAIN Answer(u, files, fault).temps \subseteq DOMAIN temps

----------------------------------------------------------------------------
\* C12: rate limit: for each user, two batches that pass the rate-limit check
\* are at least the cooldown window apart; a batch arriving before the window
\* has elapsed is rejected wholesale with RATE_LIMITED, stages no file, adds
\* no row and leaves the recorded last-upload time as it was; the batches of
\* other users are not affected.

\* a batch of this user arrives before the window has elapsed
WithinWindow(username) ==
    /\ username \in DOMAIN last_upload_time
    /\ now - last_upload_time[username] < RATE_WINDOW

\* the recorded time of a user moves only to the current time, and only by a
\* full window
WindowApart ==
    \A u \in DOMAIN last_upload_time' :
        (u \notin DOMAIN last_upload_time \/ last_upload_time'[u] # last_upload_time[u]) =>
            /\ last_upload_time'[u] = now
            /\ u \in DOMAIN last_upload_time =>
                   last_upload_time'[u] - last_upload_time[u] >= RATE_WINDOW

RateLimitPerRequest ==
    \A u \in Users, files \in Requests :
        \A fault \in FaultsOf(files) :
            LET o == Answer(u, files, fault)
            IN  /\ (~no_files(files) /\ WithinWindow(u)) =>
                       /\ o.error = "RATE_LIMITED"
                       /\ o.results = <<>>
                       /\ o.temps = temps
                       /\ o.user_files = user_files
                       /\ o.disk = disk
                       /\ o.last_upload_time = last_upload_time
                /\ o.error \notin {"NO_FILES_SELECTED", "RATE_LIMITED"} =>
                       /\ ~WithinWindow(u)
                       /\ o.last_upload_time[u] = now
                /\ \A v \in Users \ {u} :
                       /\ v \in DOMAIN o.last_upload_time <=> v \in DOMAIN last_upload_time
                       /\ v \in DOMAIN last_upload_time =>
                              o.last_upload_time[v] = last_upload_time[v]

C12_RateLimit == []RateLimitPerRequest /\ [][WindowApart]_vars

\* one user is a full window past the last batch, the other user is inside
\* the window
C12_Witness ==
    /\ user_files # {}
    /\ \E u \in Users, v \in Users :
           /\ u \in DOMAIN last_upload_time /\ ~WithinWindow(u)
           /\ WithinWindow(v)

----------------------------------------------------------------------------
\* C13: duplicate upload accounting: when a user uploads a file of size s
\* whose content the user already holds as a non-duplicate row, the file's
\* outcome is DUPLICATE, the user's actual storage and the object store are
\* unchanged, space saved and original uploaded each grow by exactly s, and
\* the savings percent is space saved / original uploaded * 100 (0 when
\* nothing was uploaded).

RECURSIVE BatchBytes(_)
BatchBytes(named) ==
    IF named = <<>> THEN 0 ELSE getsize(Head(named).content) + BatchBytes(Tail(named))

\* the user holds a non-duplicate row for this content
Holds(username, content) ==
    \E f \in user_files : /\ f.username = username
                          /\ f.is_reference = 0
                          /\ f.filehash = calculate_hash(content)

C13_DuplicateAccounting ==
    /\ \A u \in Users, files \in Requests :
           LET o == Answer(u, files, NO_FAULT)
               named == Named(files)
           IN  o.error = "" =>
                   /\ \A k \in 1..Len(named) :
                          Holds(u, named[k].content) =>
                              /\ o.results[k].message = DUPLICATE
                              /\ \E f \in o.user_files \ user_files :
                                     /\ f.username = u
                                     /\ f.is_reference = 1
                                     /\ f.filehash = calculate_hash(named[k].content)
                                     /\ f.size = getsize(named[k].content)
                   /\ (\A k \in 1..Len(named) : Holds(u, named[k].content)) =>
                          /\ get_actual_storage(o.user_files, u) =
                                 get_actual_storage(user_files, u)
                          /\ o.disk = disk
                          /\ get_user_space_saved(o.user_files, u) =
                                 get_user_space_saved(user_files, u) + BatchBytes(named)
                          /\ get_original_uploaded(o.user_files, u) =
                                 get_original_uploaded(user_files, u) + BatchBytes(named)
    /\ \A u \in Users :
           LET saved == get_user_space_saved(user_files, u)
               original == get_original_uploaded(user_files, u)
               percent == savings_percent(user_files, u)
           IN  /\ original = 0 => percent = 0
               /\ original > 0 => /\ percent * original <= saved * 100
                                  /\ saved * 100 < (percent + 1) * original

\* a file uploaded twice: s / s / 2s / 50, and the user can upload it again
C13_Witness ==
    \E u \in Users, c \in Contents :
        /\ Usage(user_files, u) = <<getsize(c), getsize(c), 2 * getsize(c)>>
        /\ savings_percent(user_files, u) = 50
        /\ Holds(u, c)
        /\ \E files \in Requests :
               /\ Answer(u, files, NO_FAULT).error = ""
               /\ \A k \in 1..Len(Named(files)) : Named(files)[k].content = c

----------------------------------------------------------------------------
\* C14: download authorization: download(user, id) returns the file's bytes
\* only if the row exists, its object exists, and the user is the row's owner
\* or holds a grant for (id, user); it answers NOT_FOUND when no row has the
\* id or the object is missing, ACCESS_DENIED when the row exists and the
\* user is neither owner nor grantee; and it changes no row, grant or object.

\* the row with this id, as a set
Record(file_id) == {f \in user_files : f.id = file_id}

ObjectMissing(file_id) ==
    \E f \in Record(file_id) : f.filepath \notin DOMAIN disk

Authorised(username, file_id) ==
    \E f \in Record(file_id) :
        \/ f.username = username
        \/ \E g \in shared_files : g.file_id = file_id /\ g.shared_with = username

\* the bytes are returned only to an authorised user, and they are the object's
BytesOnlyIfAuthorised(username, file_id) ==
    LET r == download(user_files, shared_files, disk, username, file_id)
    IN  r.status = "OK" =>
            /\ Record(file_id) # {}
            /\ ~ObjectMissing(file_id)
            /\ Authorised(username, file_id)
            /\ \E f \in Record(file_id) : r.body = disk[f.filepath]

DownloadChangesNothing ==
    (\E u \in Users, id \in 1..MaxId : Download(u, id)) =>
        UNCHANGED <<user_files, shared_files, disk>>

\* as stated: NOT_FOUND whenever the object is missing
C14_DownloadAuthorization_AsStated ==
    \A u \in Users, id \in 1..MaxId :
        LET r == download(user_files, shared_files, disk, u, id)
        IN  /\ BytesOnlyIfAuthorised(u, id)
            /\ (Record(id) = {} \/ ObjectMissing(id)) => r.status = "NOT_FOUND"
            /\ (Record(id) # {} /\ ~Authorised(u, id)) => r.status = "ACCESS_DENIED"

\* with the order of the checks: the access check comes before the look at
\* the object, so a missing object answers NOT_FOUND to authorised users only
DownloadAuthorizationPerRequest ==
    \A u \in Users, id \in 1..MaxId :
        LET r == download(user_files, shared_files, disk, u, id)
        IN  /\ BytesOnlyIfAuthorised(u, id)
            /\ Record(id) = {} => r.status = "NOT_FOUND"
            /\ (Record(id) # {} /\ ~Authorised(u, id)) => r.status = "ACCESS_DENIED"
            /\ (Authorised(u, id) /\ ObjectMissing(id)) => r.status = "NOT_FOUND"
            /\ (Authorised(u, id) /\ ~ObjectMissing(id)) => r.status = "OK"

C14_DownloadAuthorization ==
    []DownloadAuthorizationPerRequest /\ [][DownloadChangesNothing]_vars

\* a grantee reads a file of another user, a stranger is refused a file, and
\* a row without an object (a folder marker) is there
C14_Witness ==
    /\ \E f \in UploadRows, g \in shared_files :
           /\ g.file_id = f.id /\ g.shared_with # f.username
           /\ download(user_files, shared_files, disk, g.shared_with, f.id).status = "OK"
    /\ \E f \in UploadRows, u \in Users :
           download(user_files, shared_files, disk, u, f.id).status = "ACCESS_DENIED"
    /\ \E f \in user_files \ UploadRows, u \in Users :
           /\ u # f.username
           /\ download(user_files, shared_files, disk, f.username, f.id).status = "NOT_FOUND"
           /\ download(user_files, shared_files, disk, u, f.id).status = "ACCESS_DENIED"

----------------------------------------------------------------------------
\* C15: delete is owner-only: delete(user, id) where no row with that id is
\* owned by the user (no such id, or a row of another user, even one who
\* granted the user read access) answers NOT_FOUND and leaves every row, grant
\* and object unchanged; a successful delete removes exactly the targeted row
\* and changes no other row.

\* the row with this id that this user owns, as a set
Owned(username, file_id) ==
    {f \in user_files : f.id = file_id /\ f.username = username}

DeletePerRequest ==
    \A u \in Users, id \in 1..(MaxId + 1) :
        LET o == delete(user_files, disk, u, id)
        IN  /\ Owned(u, id) = {} =>
                   /\ o.error = "NOT_FOUND"
                   /\ o.user_files = user_files
                   /\ o.disk = disk
            /\ Owned(u, id) # {} =>
                   /\ o.error = ""
                   /\ Cardinality(Owned(u, id)) = 1
                   /\ o.user_files = user_files \ Owned(u, id)

\* a delete step keeps the grants, and what it does to the rows is the
\* removal of one row of the requesting user
DeleteStep ==
    \A u \in Users, id \in 1..MaxId :
        Delete(u, id) =>
            /\ shared_files' = shared_files
            /\ user_files' = user_files \ Owned(u, id)
            /\ Owned(u, id) = {} => disk' = disk

C15_DeleteOwnerOnly == []DeletePerRequest /\ [][DeleteStep]_vars

\* a user holds a grant for another user's file and cannot delete it, while
\* owning a file that can be deleted
C15_Witness ==
    \E f \in UploadRows, g \in shared_files, h \in UploadRows :
        /\ g.file_id = f.id /\ g.shared_by = f.username /\ g.shared_with # f.username
        /\ delete(user_files, disk, g.shared_with, f.id).error = "NOT_FOUND"
        /\ h.username = g.shared_with
        /\ delete(user_files, disk, h.username, h.id).error = ""

----------------------------------------------------------------------------
\* C16: share-token consistency: in every reachable state every row has a
\* share token iff it is public, and no two rows carry the same token; a row
\* is created non-public and without a token, only its owner can toggle it,
\* and once sharing was toggled off the token issued before makes
\* public_download answer NOT_FOUND in every later state, also after sharing
\* was toggled on again.

\* the tokens that rows carry now
LiveTokens == {f.share_token : f \in {g \in user_files : g.is_public = 1}}

TokenConsistency ==
    /\ \A f \in user_files :
           /\ f.is_public \in {0, 1}
           /\ (f.share_token # NO_TOKEN) <=> (f.is_public = 1)
           /\ f.share_token # NO_TOKEN => f.share_token \in 1..issued_tokens
    /\ \A f \in user_files, g \in user_files :
           (f.share_token # NO_TOKEN /\ f.share_token = g.share_token) => f = g
    \* every token handed out earlier that no public row carries is dead
    /\ \A token \in 1..issued_tokens :
           token \notin LiveTokens =>
               public_download(user_files, disk, token).status = "NOT_FOUND"
    \* new rows are private
    /\ \A u \in Users, files \in BatchesOf(UploadNames, {1}) :
           \A f \in Answer(u, files, NO_FAULT).user_files \ user_files :
               f.is_public = 0 /\ f.share_token = NO_TOKEN
    /\ \A u \in Users, d \in MoreRawFolders :
           \A f \in create_folder(user_files, u, d) \ user_files :
               f.is_public = 0 /\ f.share_token = NO_TOKEN
    \* only the owner toggles
    /\ \A u \in Users, id \in 1..MaxId :
           LET o == toggle_share(user_files, issued_tokens, u, id)
           IN  /\ Owned(u, id) = {} => (o.error = "NOT_FOUND" /\ o.user_files = user_files)
               /\ \A f \in user_files :
                      f.username # u => f \in o.user_files

\* a token that shows up on a row was never handed out before
TokensAreFresh ==
    /\ issued_tokens' >= issued_tokens
    /\ \A g \in user_files' :
           g.share_token # NO_TOKEN =>
               \/ \E f \in user_files : f.id = g.id /\ f.share_token = g.share_token
               \/ g.share_token > issued_tokens

C16_ShareTokens == []TokenConsistency /\ [][TokensAreFresh]_vars

\* sharing was toggled on, off and on again: the first token is dead, the
\* second one serves the file
C16_Witness ==
    /\ issued_tokens = 2
    /\ Cardinality(user_files) = 1
    /\ public_download(user_files, disk, 1).status = "NOT_FOUND"
    /\ public_download(user_files, disk, 2).status = "OK"

----------------------------------------------------------------------------
\* C17: download_count is monotonic: it starts at 0, never decreases, grows
\* by exactly 1 with each public_download that returns the file's bytes, is
\* unchanged by a public_download that answers NOT_FOUND, and is changed by no
\* other operation (authenticated download, upload, toggle_share,
\* share_with_user).

PublicDownloadCounts ==
    /\ \A token \in 1..(MaxTokens + 1) :
           LET o == public_download(user_files, disk, token)
           IN  /\ o.status = "NOT_FOUND" => o.user_files = user_files
               /\ o.status = "OK" =>
                      \E f \in user_files :
                          /\ f.share_token = token /\ f.is_public = 1
                          /\ o.body = disk[f.filepath]
                          /\ o.user_files = (user_files \ {f}) \cup
                                 {[f EXCEPT !.download_count = f.download_count + 1]}
    /\ \A u \in Users, files \in BatchesOf(UploadNames, {1}) :
           \A f \in Answer(u, files, NO_FAULT).user_files \ user_files :
               f.download_count = 0

\* what one step does to the counts
CountStep ==
    /\ \A g \in user_files' :
           (\A f \in user_files : f.id # g.id) => g.download_count = 0
    /\ \A f \in user_files, g \in user_files' :
           f.id = g.id =>
               /\ g.download_count >= f.download_count
               /\ g.download_count # f.download_count =>
                      /\ g.download_count = f.download_count + 1
                      /\ \E token \in 1..MaxTokens :
                             /\ PublicDownload(token)
                             /\ public_download(user_files, disk, token).status = "OK"

C17_DownloadCount == []PublicDownloadCounts /\ [][CountStep]_vars

\* a public file was downloaded twice, next to a row never downloaded and a
\* token that is dead
C17_Witness ==
    /\ \E f \in UploadRows : f.download_count = 2 /\ f.is_public = 1
    /\ \E f \in UploadRows : f.download_count = 0
    /\ \E token \in 1..issued_tokens :
           public_download(user_files, disk, token).status = "NOT_FOUND"

----------------------------------------------------------------------------
\* C19: quota check-then-act race: two upload batches of one user that run
\* concurrently (the second starts after the cooldown window but before the
\* first commits) read the same actual-storage snapshot, both can pass the
\* quota gate, and together they reach a state where the user's actual
\* storage exceeds the quota.  As an invariant: the gate of a batch decides
\* on the snapshot read when the batch began, whatever was committed since,
\* and an accepted batch adds the bytes of its new primaries to what is
\* stored now.

\* the batch is suspended at the read of its last file
AtLastFile(b) == b.pc = "reading" /\ next_named(b.files, b.i + 1) = 0

C19_QuotaRace ==
    \A k \in DOMAIN batches :
        AtLastFile(batches[k]) =>
            LET b == batches[k]
                o == resume_upload(b, user_files, disk, temps)
            IN  /\ o.batch.pc = "done"
                /\ (o.batch.error = "") <=>
                       (b.current_used + o.batch.new_original_size <= USER_QUOTA_BYTES)
                /\ o.batch.error # "" =>
                       /\ o.batch.error = "QUOTA_EXCEEDED"
                       /\ o.user_files = user_files
                /\ o.batch.error = "" =>
                       get_actual_storage(o.user_files, b.username) =
                           get_actual_storage(user_files, b.username) +
                           NewPrimaryBytes(user_files, b.username, b.files)

\* two accepted batches of one user that read the same snapshot have taken
\* the user over the quota
C19_Witness ==
    \E j \in DOMAIN batches, k \in DOMAIN batches :
        /\ j < k
        /\ batches[j].username = batches[k].username
        /\ batches[j].pc = "done" /\ batches[j].error = ""
        /\ batches[k].pc = "done" /\ batches[k].error = ""
        /\ batches[j].current_used = batches[k].current_used
        /\ batches[j].current_used + batches[j].new_original_size <= USER_QUOTA_BYTES
        /\ batches[k].current_used + batches[k].new_original_size <= USER_QUOTA_BYTES
        /\ get_actual_storage(user_files, batches[j].username) > USER_QUOTA_BYTES

----------------------------------------------------------------------------
\* C20: concurrent uploads of the same new content: when two batches of one
\* user concurrently upload content the user has no primary for, then under
\* every interleaving of their staging and commit steps exactly one of them
\* creates the non-duplicate row (UPLOADED) and the other one falls back to a
\* duplicate row (DUPLICATE) with the same filepath; I1 is never violated and
\* the object exists afterwards.

\* the answers given so far for this user's files with this content: pairs
\* <<batch, position>>
AnswersFor(username, content) ==
    {km \in (DOMAIN batches) \X (1..MaxBatch) :
        /\ batches[km[1]].username = username
        /\ km[2] <= Len(batches[km[1]].results)
        /\ Named(batches[km[1]].files)[km[2]].content = content}

MessageOf(km) == batches[km[1]].results[km[2]].message

C20_ConcurrentSameContent ==
    \A u \in Users, c \in Contents :
        LET answers == AnswersFor(u, c)
            rs == RowsOf(user_files, u, calculate_hash(c))
        IN  /\ Cardinality({f \in rs : f.is_reference = 0}) <= 1
            /\ answers # {} =>
                   /\ Cardinality({km \in answers : MessageOf(km) = UPLOADED}) = 1
                   /\ \A km \in answers : MessageOf(km) \in {UPLOADED, DUPLICATE}
                   /\ Cardinality(rs) = Cardinality(answers)
                   /\ Cardinality({f \in rs : f.is_reference = 0}) = 1
                   /\ \A f \in rs : f.filepath = final_path(u, calculate_hash(c))
                   /\ final_path(u, calculate_hash(c)) \in DOMAIN disk
                   /\ disk[final_path(u, calculate_hash(c))] = c

\* two batches of one user with the same content: one answered UPLOADED; the
\* other one found no primary when it staged the content (it counted the
\* bytes as new) and answered DUPLICATE for every file at its commit
C20_Witness ==
    \E j \in DOMAIN batches, k \in DOMAIN batches, c \in Contents :
        /\ j # k
        /\ batches[j].username = batches[k].username
        /\ batches[j].pc = "done" /\ batches[k].pc = "done"
        /\ \E m \in 1..Len(batches[j].results) :
               /\ Named(batches[j].files)[m].content = c
               /\ batches[j].results[m].message = UPLOADED
        /\ batches[k].results # <<>>
        /\ batches[k].new_original_size = getsize(c)
        /\ \A m \in 1..Len(batches[k].results) :
               /\ Named(batches[k].files)[m].content = c
               /\ batches[k].results[m].message = DUPLICATE

----------------------------------------------------------------------------
\* C21: quota bound without overlap: when no two upload batches of one user
\* overlap in time, every user's actual storage is at most the quota in every
\* reachable state, under any sequence of uploads, deletes, folder creations
\* and sharing requests.

C21_QuotaBound ==
    \A u \in Users : get_actual_storage(user_files, u) <= USER_QUOTA_BYTES

\* a user exactly at the quota after uploads and a delete, with a file shared
\* and a file public; the objects of the user hold more bytes than the quota
C21_Witness ==
    \E u \in Users :
        /\ get_actual_storage(user_files, u) = USER_QUOTA_BYTES
        /\ StoredBytes(disk, ObjectsOf(disk, u)) > USER_QUOTA_BYTES
        /\ \E g \in shared_files : g.shared_by = u
        /\ \E f \in user_files : f.username = u /\ f.is_public = 1

----------------------------------------------------------------------------
\* C22: batch order: in an accepted batch the per-file outcomes are returned,
\* and the rows created, in the order the files were submitted (entries
\* without a filename are skipped), one outcome per file; when the batch
\* holds the same new content more than once, the first occurrence is
\* UPLOADED and becomes the primary and every later one is DUPLICATE.

\* the k-th named file of the batch is the first one to bring a content the
\* user holds no primary for
FirstOfNewContent(username, named, k) ==
    /\ ~Holds(username, named[k].content)
    /\ \A j \in 1..(k - 1) : named[j].content # named[k].content

C22_BatchOrder ==
    \A u \in Users, d \in {<<"d">>, <<"e">>}, files \in BatchesOf(Filenames, Contents) :
        LET o == upload(user_files, disk, temps, last_upload_time, now, u, d, files,
                        NO_FAULT)
            named == Named(files)
            created == o.user_files \ user_files
        IN  o.error = "" =>
                /\ Len(o.results) = Len(named)
                /\ Cardinality(created) = Len(named)
                /\ user_files \subseteq o.user_files
                /\ \A k \in 1..Len(named) :
                       /\ o.results[k].filename = named[k].filename
                       /\ o.results[k].message =
                              IF FirstOfNewContent(u, named, k) THEN UPLOADED ELSE DUPLICATE
                       \* the k-th row created
                       /\ \E f \in created :
                              /\ Cardinality({g \in created : g.id < f.id}) = k - 1
                              /\ \A g \in user_files : g.id < f.id
                              /\ f.username = u
                              /\ f.filename = <<named[k].filename>>
                              /\ f.filehash = calculate_hash(named[k].content)
                              /\ f.size = getsize(named[k].content)
                              /\ f.is_reference =
                                     IF FirstOfNewContent(u, named, k) THEN 0 ELSE 1

\* one batch brought the same new content as b.txt and then as a.txt: the
\* first is the primary, the second the duplicate
C22_Witness ==
    \E f \in UploadRows, g \in UploadRows :
        /\ g.id = f.id + 1
        /\ f.username = g.username /\ f.filehash = g.filehash
        /\ f.folder = g.folder
        /\ f.filename = <<"b.txt">> /\ g.filename = <<"a.txt">>
        /\ f.is_reference = 0 /\ g.is_reference = 1
        /\ \A h \in RowsOf(user_files, f.username, f.filehash) : h.id >= f.id

----------------------------------------------------------------------------
\* C23: no dangling share grants: in every state reachable by upload,
\* share_with_user and delete requests, each grant (file_id, shared_with,
\* shared_by) refers to an existing row whose owner is shared_by, with
\* shared_with different from the owner and at most one grant per
\* (file_id, shared_with); so a user who is not the owner can download a file
\* only if the file's current owner granted it to them.

C23_NoDanglingGrants ==
    /\ \A g \in shared_files :
           \E f \in user_files :
               /\ f.id = g.file_id
               /\ f.username = g.shared_by
               /\ f.username # g.shared_with
    /\ \A g \in shared_files, h \in shared_files :
           (g.file_id = h.file_id /\ g.shared_with = h.shared_with) => g = h
    /\ \A u \in Users, f \in user_files :
           (/\ f.username # u
            /\ download(user_files, shared_files, disk, u, f.id).status = "OK") =>
               \E g \in shared_files :
                   /\ g.file_id = f.id
                   /\ g.shared_with = u
                   /\ g.shared_by = f.username

====
